---- MODULE Spec2Model ----
(***************************************************************************)
(* Model of main.py: the product query pipeline (get_products) and the     *)
(* order ledger (create_order, list_orders, get_orders_by_user,            *)
(* _load_orders, _save_orders, the startup hook load_products).            *)
(*                                                                         *)
(* Strings that the code inspects (substring match, lower(), ordering) are *)
(* tuples of ASCII codes, so that lower() and `in` are computed.  Opaque   *)
(* strings (user ids, field names) are TLA+ strings.  Prices and ratings   *)
(* are integers.  A JSON object is a function whose DOMAIN is its key set, *)
(* so an absent key is a key outside the DOMAIN.                           *)
(***************************************************************************)
EXTENDS Integers, Sequences, FiniteSets, TLC

VARIABLES
    db,             \* db.json: [kind, products]
    file,           \* orders.json: [kind, orders]
    up,             \* per serving process: "down" | "up" | "failed"
    PRODUCTS,       \* per process: the module global PRODUCTS
    ORDERS,         \* per process: the module global ORDERS
    running,        \* per process: the create_order call that holds the event loop (0: none)
    pc,             \* per create_order call: "new" | "appended" | "done"
    new_order,      \* per create_order call: its local new_order
    owner,          \* per create_order call: the process (and its run) that serves it
    run,            \* per process: how many times it has been started
    nextId,         \* the source of uuid4 values
    clock,          \* the process clock read by datetime.utcnow()
    filtered_data,  \* get_products: its local filtered_data after the sort stage
    resp,           \* the response of the last handler that returned
    lastOp,         \* the last step taken: [op, p, r, io]
    acked           \* the orders that create_order has returned

vars == <<db, file, up, PRODUCTS, ORDERS, running, pc, new_order, owner, run,
          nextId, clock, filtered_data, resp, lastOp, acked>>

(***************************************************************************)
(* Bounds                                                                  *)
(***************************************************************************)
MaxReqs == 3
MaxRuns == 2
MaxProducts == 3
MaxPage == 3
MaxLimit == 2

Procs == {1, 2}
Reqs == 1..MaxReqs
Users == {"u1", "u2"}

Range(s) == {s[i] : i \in 1..Len(s)}
Min(a, b) == IF a < b THEN a ELSE b

(***************************************************************************)
(* Strings as tuples of ASCII codes                                        *)
(***************************************************************************)
LowerChar(c) == IF c >= 65 /\ c <= 90 THEN c + 32 ELSE c
Lower(s) == [i \in 1..Len(s) |-> LowerChar(s[i])]

\* Python's `needle in hay` for strings.
Contains(hay, needle) ==
    \E i \in 0..(Len(hay) - Len(needle)) :
        \A j \in 1..Len(needle) : hay[i + j] = needle[j]

\* Python's `a < b` for strings: lexicographic on code points.
StrLess(a, b) ==
    \E i \in 1..(Min(Len(a), Len(b)) + 1) :
        /\ \A j \in 1..(i - 1) : a[j] = b[j]
        /\ \/ i > Len(a) /\ i <= Len(b)
           \/ i <= Len(a) /\ i <= Len(b) /\ a[i] < b[i]

\* dict.get(key) is not None / dict.get(key, default)
Has(item, key) == key \in DOMAIN item
Get(item, key, default) == IF key \in DOMAIN item THEN item[key] ELSE default

\* Optional[str]: <<>> is None, <<s>> is the string s.
OptGet(item, key) == IF key \in DOMAIN item THEN <<item[key]>> ELSE <<>>
\* `x or ""`
OrEmpty(value) == IF value = <<>> THEN <<>> ELSE value[1]
\* `if param:` for an optional string parameter
Truthy(q, key) == key \in DOMAIN q /\ q[key] # <<>>

(***************************************************************************)
(* get_products: the query pipeline                                        *)
(***************************************************************************)
PageMin == 1
LimitMin == 1
LimitMax == 100

Matches(value, query) ==
    IF value = <<>> THEN FALSE ELSE Contains(Lower(value[1]), Lower(query))

CategoryFilter(fd, q) ==
    LET Keep(item) == Matches(OptGet(item, "category"), q["category"])
    IN  IF Truthy(q, "category") THEN SelectSeq(fd, Keep) ELSE fd

\* Variant: the brand stage filters the catalog instead of the previous stage's output.
BrandFilter_FromCatalog(fd, q) ==
    LET Keep(item) == Matches(OptGet(item, "brand"), q["brand"])
    IN  IF Truthy(q, "brand") THEN SelectSeq(PRODUCTS[1], Keep) ELSE fd

BrandFilter(fd, q) ==
    LET Keep(item) == Matches(OptGet(item, "brand"), q["brand"])
    IN  IF Truthy(q, "brand") THEN SelectSeq(fd, Keep) ELSE fd

MinPriceFilter(fd, q) ==
    LET Keep(item) == Get(item, "price", 0) >= q["minPrice"]
    IN  IF Has(q, "minPrice") THEN SelectSeq(fd, Keep) ELSE fd

MaxPriceFilter(fd, q) ==
    LET Keep(item) == Get(item, "price", 0) <= q["maxPrice"]
    IN  IF Has(q, "maxPrice") THEN SelectSeq(fd, Keep) ELSE fd

MinRatingFilter(fd, q) ==
    LET Keep(item) == Get(item, "rating", 0) >= q["minRating"]
    IN  IF Has(q, "minRating") THEN SelectSeq(fd, Keep) ELSE fd

AvailabilityFilter(fd, q) ==
    LET Keep(item) == Matches(OptGet(item, "availabilityStatus"), q["availabilityStatus"])
    IN  IF Truthy(q, "availabilityStatus") THEN SelectSeq(fd, Keep) ELSE fd

SearchFilter(fd, q) ==
    LET search_lower == Lower(q["search"])
        Keep(item) ==
            \/ Contains(Lower(OrEmpty(OptGet(item, "title"))), search_lower)
            \/ Contains(Lower(OrEmpty(OptGet(item, "description"))), search_lower)
            \/ Contains(Lower(OrEmpty(OptGet(item, "brand"))), search_lower)
            \/ \E tag \in Range(Get(item, "tags", <<>>)) : Contains(Lower(tag), search_lower)
    IN  IF Truthy(q, "search") THEN SelectSeq(fd, Keep) ELSE fd

\* The seven filter stages, each applied to the output of the one before.
ApplyFilters(products, q) ==
    SearchFilter(
      AvailabilityFilter(
        MinRatingFilter(
          MaxPriceFilter(
            MinPriceFilter(
              BrandFilter(
                CategoryFilter(products, q), q), q), q), q), q), q)

\* isinstance(item[key], (int, float)).  In the catalogs of this model the
\* fields id, price and rating hold numbers and every other field a string.
NumberFields == {"id", "price", "rating"}
IsNumber(item, key) == key \in NumberFields

\* A sort key: a number (inf = 1: float('inf'), inf = -1: float('-inf')) or a string.
get_sort_key(item, sortBy, reverse) ==
    IF ~ Has(item, sortBy)
      THEN [t |-> "num", inf |-> IF reverse THEN -1 ELSE 1, n |-> 0, s |-> <<>>]
      ELSE IF IsNumber(item, sortBy)
        THEN [t |-> "num", inf |-> 0, n |-> item[sortBy], s |-> <<>>]
        ELSE [t |-> "str", inf |-> 0, n |-> 0, s |-> Lower(item[sortBy])]

\* `a < b` on two keys of the same type.
KeyLess(a, b) ==
    IF a.t = "num"
      THEN a.inf < b.inf \/ (a.inf = 0 /\ b.inf = 0 /\ a.n < b.n)
      ELSE StrLess(a.s, b.s)

\* sorted() compares a str with a float: TypeError.
SortRaises(keys) == \E i, j \in 1..Len(keys) : keys[i].t # keys[j].t

\* sorted(seq, key, reverse): stable in both directions.
Sorted(seq, keys, reverse) ==
    LET n == Len(seq)
        Before(i, j) ==
            \/ IF reverse THEN KeyLess(keys[j], keys[i]) ELSE KeyLess(keys[i], keys[j])
            \/ /\ ~ KeyLess(keys[i], keys[j])
               /\ ~ KeyLess(keys[j], keys[i])
               /\ i < j
        rank(i) == Cardinality({j \in 1..n : Before(j, i)}) + 1
    IN  [r \in 1..n |-> seq[CHOOSE i \in 1..n : rank(i) = r]]

SortStage(fd, q) ==
    LET reverse == q["order"] = "desc"
        keys == [i \in 1..Len(fd) |-> get_sort_key(fd[i], q["sortBy"], reverse)]
    IN  IF Has(q, "sortBy") /\ q["sortBy"] # ""
          THEN IF SortRaises(keys) THEN fd ELSE Sorted(fd, keys, reverse)
          ELSE fd

\* Variant: total_items // limit
TotalPages_Floor(total_items, limit) == total_items \div limit

\* math.ceil(total_items / limit) if total_items > 0 else 0
TotalPages(total_items, limit) ==
    IF total_items > 0
      THEN IF total_items % limit = 0 THEN total_items \div limit
                                      ELSE total_items \div limit + 1
      ELSE 0

\* seq[start:end] for 0 <= start <= end
PySlice(seq, start, end) ==
    IF start >= Len(seq) THEN <<>> ELSE SubSeq(seq, start + 1, Min(end, Len(seq)))

\* {key: value for key, value in item.items() if key in selected_fields}
Project(item, selected_fields) ==
    [key \in (DOMAIN item) \cap Range(selected_fields) |-> item[key]]

FieldSelection(paginated_data, q) ==
    IF Has(q, "fields") /\ q["fields"] # <<>>
      THEN [i \in 1..Len(paginated_data) |-> Project(paginated_data[i], q["fields"])]
      ELSE paginated_data

\* Variant: the 404 test without `total_pages > 0`.
PageNotFound_NoZeroGuard(paginated_data, page, total_pages) ==
    Len(paginated_data) = 0 /\ page > total_pages

\* The 404 test of get_products.
PageNotFound(paginated_data, page, total_pages) ==
    Len(paginated_data) = 0 /\ page > total_pages /\ total_pages > 0

\* The response of get_products for the sorted sequence fd.
Respond(fd, q) ==
    LET total_items == Len(fd)
        total_pages == TotalPages(total_items, q["limit"])
        start == (q["page"] - 1) * q["limit"]
        end == start + q["limit"]
        paginated_data == FieldSelection(PySlice(fd, start, end), q)
    IN  IF PageNotFound(paginated_data, q["page"], total_pages)
          THEN [op |-> "get_products", status |-> 404, page |-> q["page"],
                limit |-> q["limit"], totalItems |-> total_items,
                totalPages |-> total_pages, data |-> <<>>, q |-> q]
          ELSE [op |-> "get_products", status |-> 200, page |-> q["page"],
                limit |-> q["limit"], totalItems |-> total_items,
                totalPages |-> total_pages, data |-> paginated_data, q |-> q]

(***************************************************************************)
(* The order ledger                                                        *)
(***************************************************************************)
\* Order(id=str(uuid4()), createdAt=datetime.utcnow(), **order.model_dump()).
\* items, totalAmount, status, notes and metadata are copied from the request
\* and never read by the code; they are left out.
Order(id, userId, createdAt) == [id |-> id, userId |-> userId, createdAt |-> createdAt]

\* _load_orders, and what load_products does with its result.  io: open() or
\* read() raises OSError.  outcome "list": a list is returned; "none": the
\* document's `orders` is null, which len() rejects; "raise": an exception
\* that _load_orders does not catch.
LoadOrders(f, io) ==
    CASE f.kind = "absent"     -> [outcome |-> "list", orders |-> <<>>]
      [] io                    -> [outcome |-> "list", orders |-> <<>>]
      [] f.kind = "notutf8"    -> [outcome |-> "raise", orders |-> <<>>]
      [] f.kind = "corrupt"    -> [outcome |-> "list", orders |-> <<>>]
      [] f.kind = "notobject"  -> [outcome |-> "raise", orders |-> <<>>]
      [] f.kind = "nokey"      -> [outcome |-> "list", orders |-> <<>>]
      [] f.kind = "ordersnull" -> [outcome |-> "none", orders |-> <<>>]
      [] OTHER                 -> [outcome |-> "list", orders |-> f.orders]

\* Variants of _save_orders: an incremental write of the newest order only, and
\* a read-modify-write that keeps what the file already holds.
SaveOrders_LastOnly(orders) ==
    [kind |-> "valid",
     orders |-> IF orders = <<>> THEN <<>> ELSE <<orders[Len(orders)]>>]

SaveOrders_Merge(orders) ==
    LET old == IF file.kind = "valid" THEN file.orders ELSE <<>>
        Fresh(o) == o \notin Range(old)
    IN  [kind |-> "valid", orders |-> old \o SelectSeq(orders, Fresh)]

\* _save_orders: the document written to orders.json.
SaveOrders(orders) == [kind |-> "valid", orders |-> orders]

\* Variant: ORDERS.insert(0, ...)
AppendOrder_Prepend(orders, order) == <<order>> \o orders

\* ORDERS.append(...)
AppendOrder(orders, order) == Append(orders, order)

\* Variant: the handlers run on a thread pool.
LoopFree_Threaded(p) == TRUE

\* The handlers are coroutines that never await: one runs at a time per process.
LoopFree(p) == running[p] = 0

IdsOf(orders) == {orders[i].id : i \in 1..Len(orders)}

\* load_products: the startup hook.
Startup(p, io) ==
    LET loaded == LoadOrders(file, io)
        dbOk == db.kind = "valid"
        ok == dbOk /\ loaded.outcome = "list"
    IN  /\ up[p] = "down"
        /\ run[p] < MaxRuns
        /\ io => file.kind # "absent"
        /\ run' = [run EXCEPT ![p] = @ + 1]
        /\ PRODUCTS' = [PRODUCTS EXCEPT ![p] = IF dbOk THEN db.products ELSE <<>>]
        /\ ORDERS' = [ORDERS EXCEPT ![p] = IF ok THEN loaded.orders ELSE <<>>]
        /\ up' = [up EXCEPT ![p] = IF ok THEN "up" ELSE "failed"]
        /\ lastOp' = [op |-> "startup", p |-> p, r |-> 0, io |-> io]
        /\ UNCHANGED <<db, file, running, pc, new_order, owner, nextId, clock,
                       filtered_data, resp, acked>>

\* The process exits (between requests); its globals are gone.
Stop(p) ==
    /\ up[p] # "down"
    /\ running[p] = 0
    /\ up' = [up EXCEPT ![p] = "down"]
    /\ PRODUCTS' = [PRODUCTS EXCEPT ![p] = <<>>]
    /\ ORDERS' = [ORDERS EXCEPT ![p] = <<>>]
    /\ lastOp' = [op |-> "stop", p |-> p, r |-> 0, io |-> FALSE]
    /\ UNCHANGED <<db, file, running, pc, new_order, owner, run, nextId, clock,
                   filtered_data, resp, acked>>

\* create_order, lines 289-294: build the order and append it.  Calls are
\* numbered in the order they start; the clock moves on between two calls.
CreateOrderAppend(p, r, userId) ==
    LET o == Order(nextId, userId, clock)
    IN  /\ up[p] = "up"
        /\ LoopFree(p)
        /\ pc[r] = "new"
        /\ \A r2 \in 1..(r - 1) : pc[r2] # "new"
        /\ new_order' = [new_order EXCEPT ![r] = o]
        /\ nextId' = nextId + 1
        /\ clock' = clock + 1
        /\ ORDERS' = [ORDERS EXCEPT ![p] = AppendOrder(@, o)]
        /\ running' = [running EXCEPT ![p] = r]
        /\ pc' = [pc EXCEPT ![r] = "appended"]
        /\ owner' = [owner EXCEPT ![r] = <<p, run[p]>>]
        /\ lastOp' = [op |-> "append", p |-> p, r |-> r, io |-> FALSE]
        /\ UNCHANGED <<db, file, up, PRODUCTS, run, filtered_data, resp, acked>>

\* create_order, lines 295-296: _save_orders() and return.
CreateOrderSave(p, r) ==
    /\ up[p] = "up"
    /\ running[p] = r
    /\ pc[r] = "appended"
    /\ file' = SaveOrders(ORDERS[p])
    /\ pc' = [pc EXCEPT ![r] = "done"]
    /\ running' = [running EXCEPT ![p] = 0]
    /\ acked' = acked \cup {new_order[r]}
    /\ resp' = [op |-> "create_order", status |-> 201, body |-> new_order[r]]
    /\ lastOp' = [op |-> "save", p |-> p, r |-> r, io |-> FALSE]
    /\ UNCHANGED <<db, up, PRODUCTS, ORDERS, new_order, owner, run, nextId, clock,
                   filtered_data>>

ListOrders(p) ==
    /\ up[p] = "up"
    /\ LoopFree(p)
    /\ resp' = [op |-> "list_orders", status |-> 200, body |-> ORDERS[p]]
    /\ lastOp' = [op |-> "list_orders", p |-> p, r |-> 0, io |-> FALSE]
    /\ UNCHANGED <<db, file, up, PRODUCTS, ORDERS, running, pc, new_order, owner, run,
                   nextId, clock, filtered_data, acked>>

GetOrdersByUser(p, user_id) ==
    LET Mine(order) == order.userId = user_id
    IN  /\ up[p] = "up"
        /\ LoopFree(p)
        /\ resp' = [op |-> "get_orders_by_user", status |-> 200,
                    body |-> SelectSeq(ORDERS[p], Mine)]
        /\ lastOp' = [op |-> "get_orders_by_user", p |-> p, r |-> 0, io |-> FALSE]
        /\ UNCHANGED <<db, file, up, PRODUCTS, ORDERS, running, pc, new_order, owner,
                       run, nextId, clock, filtered_data, acked>>

GetProducts(p, q) ==
    /\ up[p] = "up"
    /\ LoopFree(p)
    /\ q["page"] >= PageMin
    /\ q["limit"] >= LimitMin /\ q["limit"] <= LimitMax
    /\ filtered_data' = SortStage(ApplyFilters(PRODUCTS[p], q), q)
    /\ resp' = Respond(filtered_data', q)
    /\ lastOp' = [op |-> "get_products", p |-> p, r |-> 0, io |-> FALSE]
    /\ UNCHANGED <<db, file, up, PRODUCTS, ORDERS, running, pc, new_order, owner, run,
                   nextId, clock, acked>>

(***************************************************************************)
(* Inputs                                                                  *)
(***************************************************************************)
str_A == <<65>>
str_a == <<97>>
str_b == <<98>>
str_Ab == <<65, 98>>
str_x == <<120>>
str_X == <<88>>
str_Xm == <<88, 109>>
str_y == <<121>>
str_In == <<73, 110>>
str_in == <<105, 110>>
str_IN == <<73, 78>>
str_out == <<111, 117, 116>>
str_m == <<109>>
str_M == <<77>>
str_aM == <<97, 77>>

Pool == {
    [id |-> 1, category |-> str_Ab, brand |-> str_x, price |-> 2, rating |-> 4,
     availabilityStatus |-> str_In, title |-> str_b, tags |-> <<str_m>>],
    [id |-> 2, category |-> str_b, price |-> 2, title |-> str_A],
    [id |-> 3, brand |-> str_Xm, rating |-> 2, availabilityStatus |-> str_in,
     description |-> str_aM],
    [id |-> 4, category |-> str_a, brand |-> str_y, price |-> 1, rating |-> 1,
     availabilityStatus |-> str_out, title |-> str_a] }

\* Catalogs of distinct products, in every order.
Catalogs ==
    UNION { { c \in [1..n -> Pool] : \A i, j \in 1..n : c[i] = c[j] => i = j }
            : n \in 0..MaxProducts }

FilterValue == [category |-> str_A, brand |-> str_X, minPrice |-> 2, maxPrice |-> 2,
                minRating |-> 2, availabilityStatus |-> str_IN, search |-> str_M]
FilterKeys == DOMAIN FilterValue
SortChoices == {<<"", "asc">>, <<"price", "asc">>, <<"price", "desc">>,
                <<"title", "asc">>, <<"title", "desc">>}
FieldChoices == {<<>>, <<"id", "title">>}

\* The parsed query string: optional parameters that are not given are absent.
MkQuery(page, limit, fs, sort, fl) ==
    [k \in {"page", "limit", "order"} \cup fs
           \cup (IF sort[1] = "" THEN {} ELSE {"sortBy"})
           \cup (IF fl = <<>> THEN {} ELSE {"fields"}) |->
        CASE k = "page"   -> page
          [] k = "limit"  -> limit
          [] k = "order"  -> sort[2]
          [] k = "sortBy" -> sort[1]
          [] k = "fields" -> fl
          [] OTHER        -> FilterValue[k]]

Order101 == Order(101, "u1", 0)
Order102 == Order(102, "u2", 0)

\* The conditions orders.json can be in when a process starts.
FileConditions ==
    { [kind |-> k, orders |-> <<>>] :
        k \in {"absent", "corrupt", "notutf8", "notobject", "nokey", "ordersnull"} }
    \cup { [kind |-> "valid", orders |-> os] :
              os \in {<<>>, <<Order101>>, <<Order101, Order102>>} }

SmallCatalog == <<CHOOSE x \in Pool : x.id = 1, CHOOSE x \in Pool : x.id = 3>>
DbConditions == {[kind |-> "valid", products |-> SmallCatalog],
                 [kind |-> "absent", products |-> <<>>]}

(***************************************************************************)
(* Specifications                                                          *)
(***************************************************************************)
InitCommon ==
    /\ running = [p \in Procs |-> 0]
    /\ pc = [r \in Reqs |-> "new"]
    /\ new_order = [r \in Reqs |-> Order(0, "", 0)]
    /\ owner = [r \in Reqs |-> <<0, 0>>]
    /\ nextId = 1
    /\ clock = 0
    /\ filtered_data = <<>>
    /\ resp = [op |-> "none", status |-> 0]
    /\ lastOp = [op |-> "init", p |-> 0, r |-> 0, io |-> FALSE]
    /\ acked = {}

\* No process has started yet.
Init ==
    /\ InitCommon
    /\ db \in DbConditions
    /\ file \in FileConditions
    /\ up = [p \in Procs |-> "down"]
    /\ run = [p \in Procs |-> 0]
    /\ PRODUCTS = [p \in Procs |-> <<>>]
    /\ ORDERS = [p \in Procs |-> <<>>]

ProcNext(p) ==
    \/ \E io \in BOOLEAN : Startup(p, io)
    \/ Stop(p)
    \/ \E r \in Reqs, u \in Users : CreateOrderAppend(p, r, u)
    \/ \E r \in Reqs : CreateOrderSave(p, r)
    \/ ListOrders(p)
    \/ \E u \in Users : GetOrdersByUser(p, u)
    \/ \E page \in 1..2 : GetProducts(p, MkQuery(page, 1, {}, <<"", "asc">>, <<>>))

\* One serving process.
Next == ProcNext(1)

Spec == Init /\ [][Next]_vars

\* Two serving processes on the same orders.json, creating orders.
InitMulti ==
    /\ Init
    /\ db.kind = "valid"
    /\ file \in {[kind |-> "absent", orders |-> <<>>],
                 [kind |-> "valid", orders |-> <<Order101>>]}

NextMulti ==
    \E p \in Procs :
        \/ \E io \in BOOLEAN : Startup(p, io)
        \/ Stop(p)
        \/ \E r \in Reqs, u \in Users : CreateOrderAppend(p, r, u)
        \/ \E r \in Reqs : CreateOrderSave(p, r)

SpecMulti == InitMulti /\ [][NextMulti]_vars

\* One process that has started on a catalog; product queries only.
InitQuery ==
    /\ InitCommon
    /\ \E c \in Catalogs :
        /\ db = [kind |-> "valid", products |-> c]
        /\ PRODUCTS = [p \in Procs |-> IF p = 1 THEN c ELSE <<>>]
    /\ file = [kind |-> "absent", orders |-> <<>>]
    /\ up = [p \in Procs |-> IF p = 1 THEN "up" ELSE "down"]
    /\ run = [p \in Procs |-> IF p = 1 THEN 1 ELSE 0]
    /\ ORDERS = [p \in Procs |-> <<>>]

\* get_products is a function of the catalog and the query alone, so one
\* request per behaviour covers it.
NextQuery ==
    /\ resp.op = "none"
    /\ \E page \in 1..MaxPage, limit \in 1..MaxLimit, fs \in SUBSET FilterKeys,
       sort \in SortChoices, fl \in FieldChoices :
         GetProducts(1, MkQuery(page, limit, fs, sort, fl))

SpecQuery == InitQuery /\ [][NextQuery]_vars

(***************************************************************************)
(* Properties                                                              *)
(***************************************************************************)
Max(a, b) == IF a > b THEN a ELSE b
Count(seq, x) == Cardinality({i \in 1..Len(seq) : seq[i] = x})

\* C1: within one run of the serving process, a create_order appends exactly
\* one order at the end, with an id no stored order has, and leaves every
\* stored order where and as it was; ids stay unique; no other operation
\* changes the sequence.
C1_AppendOnly ==
    [][ (up[1] = "up" /\ up'[1] = "up") =>
          LET old == ORDERS[1]
              new == ORDERS'[1]
          IN  /\ lastOp'.op = "append" =>
                    /\ Len(new) = Len(old) + 1
                    /\ SubSeq(new, 1, Len(old)) = old
                    /\ new[Len(new)].id \notin IdsOf(old)
                    /\ Cardinality(IdsOf(new)) = Len(new)
              /\ lastOp'.op # "append" => new = old ]_vars

\* Two creations on top of a loaded log of two orders.
C1_Witness ==
    /\ up[1] = "up"
    /\ lastOp.op = "save"
    /\ Len(ORDERS[1]) = 4
    /\ ORDERS[1][1] = Order101

\* C2: right after a create_order has returned, the `orders` list of
\* orders.json is the whole in-memory sequence of the process, in order.
C2_LogIsWholeSequence ==
    lastOp.op = "save" =>
        /\ resp.status = 201
        /\ file.kind = "valid"
        /\ file.orders = ORDERS[lastOp.p]

C2_Witness ==
    /\ lastOp.op = "save"
    /\ file.kind = "valid"
    /\ Len(file.orders) >= 3
    /\ resp.body = file.orders[Len(file.orders)]

\* C3: every order that create_order has returned is in orders.json, whatever
\* creations and restarts (with or without a failed load) came after.
C3_AckedStayInLog ==
    \A o \in acked : file.kind = "valid" /\ o \in Range(file.orders)

\* C8: with a loadable catalog, startup succeeds for every condition of
\* orders.json: the store is the log's `orders` list when the log is a
\* readable document with such a list, and empty otherwise.
C8_StartupNeverFails ==
    (lastOp.op = "startup" /\ db.kind = "valid") =>
        /\ up[lastOp.p] = "up"
        /\ ORDERS[lastOp.p] =
              IF file.kind = "valid" /\ ~ lastOp.io THEN file.orders ELSE <<>>

\* C9: between the append of a create_order and its save no other handler of
\* the process takes a step; and once every call of one run has finished, the
\* in-memory sequence and orders.json hold each created order exactly once.
C9_AllDoneOneRun ==
    /\ up[1] = "up"
    /\ \A r \in Reqs : pc[r] = "done" /\ owner[r] = <<1, run[1]>>

C9_RunsToCompletion ==
    [][ /\ \A r \in Reqs :
              pc[r] = "appended" =>
                  pc'[r] = "done" /\ lastOp'.op = "save" /\ lastOp'.r = r
        /\ C9_AllDoneOneRun' =>
              \A r \in Reqs :
                  /\ Count(ORDERS'[1], new_order'[r]) = 1
                  /\ file'.kind = "valid"
                  /\ Count(file'.orders, new_order'[r]) = 1 ]_vars

C9_Witness == C9_AllDoneOneRun /\ lastOp.op = "save" /\ Len(file.orders) > MaxReqs

\* C10: when a process saves after another process has persisted an order,
\* orders.json becomes exactly the saving process's in-memory sequence.
C10_LastWriteWins ==
    (/\ lastOp.op = "save"
     /\ \E r \in Reqs : pc[r] = "done" /\ owner[r][1] # lastOp.p) =>
        /\ file.kind = "valid"
        /\ file.orders = ORDERS[lastOp.p]

\* Two running processes; the one that saved last has overwritten an order
\* that the other persisted and still holds in memory.
C10_Witness ==
    /\ lastOp.op = "save"
    /\ \E r \in Reqs :
        LET p2 == owner[r][1]
        IN  /\ pc[r] = "done"
            /\ p2 # lastOp.p
            /\ up[p2] = "up" /\ owner[r][2] = run[p2]
            /\ new_order[r] \in acked
            /\ new_order[r] \in Range(ORDERS[p2])
            /\ new_order[r] \notin Range(file.orders)

\* What each filter parameter asks of a record.
PassesFilter(item, q, k) ==
    CASE k = "category" ->
            Has(item, "category") /\ Contains(Lower(item["category"]), Lower(q[k]))
      [] k = "brand" ->
            Has(item, "brand") /\ Contains(Lower(item["brand"]), Lower(q[k]))
      [] k = "availabilityStatus" ->
            Has(item, "availabilityStatus")
            /\ Contains(Lower(item["availabilityStatus"]), Lower(q[k]))
      [] k = "minPrice" -> (IF Has(item, "price") THEN item["price"] ELSE 0) >= q[k]
      [] k = "maxPrice" -> (IF Has(item, "price") THEN item["price"] ELSE 0) <= q[k]
      [] k = "minRating" -> (IF Has(item, "rating") THEN item["rating"] ELSE 0) >= q[k]
      [] OTHER ->
            \/ \E f \in {"title", "description", "brand"} :
                  Has(item, f) /\ Contains(Lower(item[f]), Lower(q[k]))
            \/ Has(item, "tags")
               /\ \E i \in 1..Len(item["tags"]) :
                     Contains(Lower(item["tags"][i]), Lower(q[k]))

\* The least t with t * limit >= n.
CeilPages(n, limit) == CHOOSE t \in 0..n : t * limit >= n /\ (t = 0 \/ (t - 1) * limit < n)

\* C4: in a successful response totalItems counts the records that pass the
\* filters, totalPages is ceil(totalItems / limit) (0 for no items), and data
\* is the records at indices [(page-1)*limit, (page-1)*limit + limit) of the
\* filtered and sorted sequence, clipped to its length (each reduced to the
\* keys in `fields` when that parameter is given), so never more than limit.
C4_Pagination ==
    (resp.op = "get_products" /\ resp.status = 200) =>
        LET q == resp.q
            catalog == PRODUCTS[1]
            passing == {i \in 1..Len(catalog) :
                           \A k \in FilterKeys \cap DOMAIN q : PassesFilter(catalog[i], q, k)}
            n == Cardinality(passing)
            start == (q["page"] - 1) * q["limit"]
            Shown(item) == IF Has(q, "fields")
                             THEN [k \in DOMAIN item \cap {"id", "title"} |-> item[k]]
                             ELSE item
        IN  /\ resp.totalItems = n
            /\ Len(filtered_data) = n
            /\ resp.totalPages = CeilPages(n, q["limit"])
            /\ Len(resp.data) = Max(0, Min(q["limit"], n - start))
            /\ Len(resp.data) <= q["limit"]
            /\ \A i \in 1..Len(resp.data) : resp.data[i] = Shown(filtered_data[start + i])

\* The last page of three records in pages of two.
C4_Witness ==
    /\ resp.op = "get_products" /\ resp.status = 200
    /\ resp.totalItems = 3 /\ resp.limit = 2 /\ resp.page = 2
    /\ Len(resp.data) = 1
    /\ resp.totalPages = 2
    /\ Has(resp.q, "sortBy")

C6_MissingLast ==
    (resp.op = "get_products" /\ Has(resp.q, "sortBy")) =>
        \A i, j \in 1..Len(filtered_data) :
            (~ Has(filtered_data[i], resp.q["sortBy"])
             /\ Has(filtered_data[j], resp.q["sortBy"])) => j < i

\* The same for a field that holds numbers.
C6_MissingLastNumeric ==
    (resp.op = "get_products" /\ Has(resp.q, "sortBy")
     /\ resp.q["sortBy"] \in NumberFields) =>
        \A i, j \in 1..Len(filtered_data) :
            (~ Has(filtered_data[i], resp.q["sortBy"])
             /\ Has(filtered_data[j], resp.q["sortBy"])) => j < i

\* The query that has, of the filters, only k.
OnlyFilter(q, k) == [j \in {"page", "limit", "order", k} |-> q[j]]

\* C7: the records that pass a query are those that pass each of its
\* filters applied alone.
C7_Conjunctive ==
    resp.op = "get_products" =>
        Range(filtered_data) =
            {x \in Range(PRODUCTS[1]) :
                \A k \in FilterKeys \cap DOMAIN resp.q :
                    x \in Range(ApplyFilters(PRODUCTS[1], OnlyFilter(resp.q, k)))}

\* category with minPrice, each alone passing more than both together.
C7_Witness ==
    /\ resp.op = "get_products"
    /\ FilterKeys \cap DOMAIN resp.q = {"category", "minPrice"}
    /\ Len(filtered_data) >= 1
    /\ Len(filtered_data) < Len(ApplyFilters(PRODUCTS[1], OnlyFilter(resp.q, "category")))
    /\ Len(filtered_data) < Len(ApplyFilters(PRODUCTS[1], OnlyFilter(resp.q, "minPrice")))

====
